---- MODULE Spec2Model ----
(***************************************************************************)
(* Model of the ec2-reservations command (src/ec2-reservations.go):        *)
(* main/do fetch the running instances and the active reservations, build  *)
(* three count maps, call reconcile, split its result into two report      *)
(* lists, sort them by type and write them through a tabwriter.            *)
(*                                                                         *)
(* Go maps are modelled as functions whose DOMAIN is the set of keys       *)
(* present.  Instance types are strings compared with Go's < (bytewise     *)
(* lexicographic); they are modelled as sequences of byte codes.  Every    *)
(* `range` over a map whose body depends on the order visits the keys in   *)
(* an order chosen nondeterministically.                                   *)
(***************************************************************************)
EXTENDS Integers, Sequences, FiniteSets, TLC

\* ---------------------------------------------------------------- bounds
MaxInstances == 2       \* running instances in the DescribeInstances response
MaxReservations == 2    \* records in the DescribeReservedInstances response
MaxCount == 2           \* largest InstanceCount of one reservation record

\* "c5" and "m3" as byte sequences
Types == { <<99, 53>>, <<109, 51>> }
Zones == { "a", "b" }
EmptyAZ == ""
Scopes == { "Region", "Availability Zone", "Custom" }

VARIABLES
    pc,                  \* position in main/do/reconcile
    err,                 \* the error do returns ("" is nil)
    exitCode,            \* process exit code, -1 while running
    runningInstances,    \* map[instanceInfo]int of do
    azReservations,      \* map[instanceInfo]int of do
    regionReservations,  \* map[instanceInfo]int of do, mutated by reconcile
    nRes,                \* reservation records parsed so far
    unknownScopeSeen,    \* a record whose *r.Scope hit the default case was read
    reconciled,          \* reconcile has been called
    regionAtCall,        \* regionReservations as passed to reconcile
    out,                 \* reconcile's out map, then its return value
    visited,             \* keys of out the borrowing loop has visited
    reported,            \* keys of the result the report loop has visited
    onDemandInstances,   \* []reportedInfo
    unusedReservations,  \* []reportedInfo
    written              \* lines handed to the tabwriter on the report stream

vars == << pc, err, exitCode, runningInstances, azReservations,
           regionReservations, nRes, unknownScopeSeen, reconciled, regionAtCall,
           out, visited, reported, onDemandInstances, unusedReservations, written >>

\* ------------------------------------------------------------ data types
instanceInfo(t, z) == [Type |-> t, AZ |-> z]
reportedInfo(t, z, c) == [Type |-> t, AZ |-> z, Count |-> c]

ZoneKeys == { instanceInfo(t, z) : t \in Types, z \in Zones }
RegionKeys == { instanceInfo(t, EmptyAZ) : t \in Types }
EmptyMap == [k \in {} |-> 0]

\* m[k], with Go's zero value for an absent key
Get(m, k) == IF k \in DOMAIN m THEN m[k] ELSE 0
\* m[k] = v
Put(m, k, v) == [x \in DOMAIN m \cup {k} |-> IF x = k THEN v ELSE m[x]]
\* m[k] += v
AddTo(m, k, v) == Put(m, k, Get(m, k) + v)
\* delete(m, k)
Delete(m, k) == [x \in DOMAIN m \ {k} |-> m[x]]

RECURSIVE SumOver(_, _)
SumOver(m, ks) ==
    IF ks = {} THEN 0
    ELSE LET k == CHOOSE x \in ks : TRUE IN m[k] + SumOver(m, ks \ {k})
Total(m) == SumOver(m, DOMAIN m)

\* Go's string <: bytewise lexicographic
RECURSIVE StrLess(_, _)
StrLess(s, t) ==
    IF t = << >> THEN FALSE
    ELSE IF s = << >> THEN TRUE
    ELSE IF Head(s) # Head(t) THEN Head(s) < Head(t)
    ELSE StrLess(Tail(s), Tail(t))

\* ------------------------------------------------------------- reconcile
\* first loop: out[k] = -v for every running key
Seed(running) == [k \in DOMAIN running |-> -running[k]]

\* second loop: out[k] += v for every AZ-scoped reservation
ApplyAZ(o, az) == [k \in DOMAIN o \cup DOMAIN az |-> Get(o, k) + Get(az, k)]

\* RegionKey with the type dropped: every key looks up one and the same pool
RegionKeyOneType(k) == instanceInfo(<<99, 53>>, EmptyAZ)

\* k2 := instanceInfo{Type: k.Type}
RegionKey(k) == instanceInfo(k.Type, EmptyAZ)

\* BorrowAll without the delete of the exhausted pool
BorrowAllKeepPool(k, o, r) ==
    [out |-> Put(o, k, o[k] + r[RegionKey(k)]), region |-> r]

\* the branch need >= have of the switch
BorrowAll(k, o, r) ==
    [out |-> Put(o, k, o[k] + r[RegionKey(k)]), region |-> Delete(r, RegionKey(k))]

\* the default branch of the switch
BorrowPart(k, o, r) ==
    LET v == o[k]
        v2 == r[RegionKey(k)]
        need == -v
        have == v2
        n == have - need
    IN [out |-> Put(o, k, v + n), region |-> Put(r, RegionKey(k), v2 - n)]

\* Skips with v > 0 for v >= 0: an exactly matched key is processed
SkipsPositive(v) == v > 0

\* the `v >= 0 { continue }` test of the third loop
Skips(v) == v >= 0

\* body of the third loop for key k
Borrow(k, o, r) ==
    IF Skips(o[k]) THEN [out |-> o, region |-> r]
    ELSE IF RegionKey(k) \in DOMAIN r
         THEN IF -o[k] >= r[RegionKey(k)] THEN BorrowAll(k, o, r)
                                          ELSE BorrowPart(k, o, r)
         ELSE [out |-> o, region |-> r]

\* FlushRegion without the loop: the remaining pools are not returned
FlushNothing(o, r) == o

\* fourth loop: out[k] = v for every remaining region entry
FlushRegion(o, r) ==
    [k \in DOMAIN o \cup DOMAIN r |-> IF k \in DOMAIN r THEN r[k] ELSE o[k]]

\* the third loop run over the keys in the given order
RECURSIVE BorrowLoop(_, _, _)
BorrowLoop(order, o, r) ==
    IF order = << >> THEN [out |-> o, region |-> r]
    ELSE LET s == Borrow(Head(order), o, r)
         IN BorrowLoop(Tail(order), s.out, s.region)

\* reconcile as a function of its arguments and of the order in which the
\* third loop ranges over out
reconcile(running, az, region, order) ==
    LET s == BorrowLoop(order, ApplyAZ(Seed(running), az), region)
    IN FlushRegion(s.out, s.region)

\* ------------------------------------------------------------ the report
\* ReportKind with v <= 0 for v < 0: a zero entry becomes an on-demand row
ReportKindZeroOnDemand(v) == IF v <= 0 THEN "ondemand" ELSE "unused"

\* the switch of the report loop: which list a result entry goes to
ReportKind(v) == IF v < 0 THEN "ondemand" ELSE IF v > 0 THEN "unused" ELSE "none"

OnDemandRow(k, v) == reportedInfo(k.Type, k.AZ, -v)
\* UnusedRow that copies the zone of the key
UnusedRowWithZone(k, v) == reportedInfo(k.Type, k.AZ, v)
UnusedRow(k, v) == reportedInfo(k.Type, EmptyAZ, v)

\* the less function handed to sort.SliceStable
Less(x, y) == StrLess(x.Type, y.Type)

\* InsertStable that puts x in front of the elements of equal type
RECURSIVE InsertBeforeEqual(_, _)
InsertBeforeEqual(x, s) ==
    IF s = << >> THEN << x >>
    ELSE IF ~ Less(Head(s), x) THEN << x >> \o s
    ELSE << Head(s) >> \o InsertBeforeEqual(x, Tail(s))

\* insert x behind every element it is not less than
RECURSIVE InsertStable(_, _)
InsertStable(x, s) ==
    IF s = << >> THEN << x >>
    ELSE IF Less(x, Head(s)) THEN << x >> \o s
    ELSE << Head(s) >> \o InsertStable(x, Tail(s))

\* sort.SliceStable: insertion sort (what the library runs below 20 elements)
RECURSIVE SliceStable(_)
SliceStable(s) ==
    IF s = << >> THEN << >>
    ELSE InsertStable(s[Len(s)], SliceStable(SubSeq(s, 1, Len(s) - 1)))

Header(text) == [hdr |-> text, Type |-> << >>, Count |-> 0, AZ |-> EmptyAZ]
RowLine(ri) == [hdr |-> "", Type |-> ri.Type, Count |-> ri.Count, AZ |-> ri.AZ]
Lines(rows) == [i \in 1..Len(rows) |-> RowLine(rows[i])]

\* what do prints into the tabwriter
ReportLines(onDemand, unused) ==
    (IF Len(onDemand) > 0 THEN << Header("On-demand EC2 instances:") >> ELSE << >>)
    \o Lines(onDemand)
    \o (IF Len(unused) > 0 THEN << Header("Unused reservations:") >> ELSE << >>)
    \o Lines(unused)

\* ----------------------------------------------------------------- Init
Init ==
    /\ pc = "session"
    /\ err = ""
    /\ exitCode = -1
    /\ runningInstances = EmptyMap
    /\ azReservations = EmptyMap
    /\ regionReservations = EmptyMap
    /\ nRes = 0
    /\ unknownScopeSeen = FALSE
    /\ reconciled = FALSE
    /\ regionAtCall = EmptyMap
    /\ out = EmptyMap
    /\ visited = {}
    /\ reported = {}
    /\ onDemandInstances = << >>
    /\ unusedReservations = << >>
    /\ written = << >>

Fail(e) ==
    /\ pc' = "returned"
    /\ err' = e

\* session.NewSession()
NewSession ==
    /\ pc = "session"
    /\ \/ pc' = "describeInstances" /\ err' = err
       \/ Fail("session")
    /\ UNCHANGED << exitCode, runningInstances, azReservations, regionReservations,
                    nRes, unknownScopeSeen, reconciled,
                    regionAtCall, out, visited, reported, onDemandInstances,
                    unusedReservations, written >>

\* svc.DescribeInstances(...)
DescribeInstances ==
    /\ pc = "describeInstances"
    /\ \/ pc' = "countInstances" /\ err' = err
       \/ Fail("DescribeInstances")
    /\ UNCHANGED << exitCode, runningInstances, azReservations, regionReservations,
                    nRes, unknownScopeSeen, reconciled,
                    regionAtCall, out, visited, reported, onDemandInstances,
                    unusedReservations, written >>

\* one instance of the response: runningInstances[ii] += 1
CountInstance ==
    /\ pc = "countInstances"
    /\ Total(runningInstances) < MaxInstances
    /\ \E ii \in ZoneKeys : runningInstances' = AddTo(runningInstances, ii, 1)
    /\ UNCHANGED << pc, err, exitCode, azReservations, regionReservations, nRes,
                    unknownScopeSeen, reconciled, regionAtCall, out, visited, reported, onDemandInstances,
                    unusedReservations, written >>

\* end of the response, then svc.DescribeReservedInstances(...)
DescribeReservedInstances ==
    /\ pc = "countInstances"
    /\ \/ pc' = "parseReservations" /\ err' = err
       \/ Fail("DescribeReservedInstances")
    /\ UNCHANGED << exitCode, runningInstances, azReservations, regionReservations,
                    nRes, unknownScopeSeen, reconciled,
                    regionAtCall, out, visited, reported, onDemandInstances,
                    unusedReservations, written >>

\* ParseRecord whose default case skips the record
ParseRecordSkipUnknown(scope, t, z, c) ==
    IF scope = "Region"
    THEN /\ regionReservations' = AddTo(regionReservations, instanceInfo(t, EmptyAZ), c)
         /\ UNCHANGED << pc, err, azReservations, unknownScopeSeen >>
    ELSE IF scope = "Availability Zone"
    THEN /\ azReservations' = AddTo(azReservations, instanceInfo(t, z), c)
         /\ UNCHANGED << pc, err, regionReservations, unknownScopeSeen >>
    ELSE /\ unknownScopeSeen' = TRUE
         /\ UNCHANGED << pc, err, azReservations, regionReservations >>

\* the scope switch for one reservation record
ParseRecord(scope, t, z, c) ==
    IF scope = "Region"
    THEN /\ regionReservations' = AddTo(regionReservations, instanceInfo(t, EmptyAZ), c)
         /\ UNCHANGED << pc, err, azReservations, unknownScopeSeen >>
    ELSE IF scope = "Availability Zone"
    THEN /\ azReservations' = AddTo(azReservations, instanceInfo(t, z), c)
         /\ UNCHANGED << pc, err, regionReservations, unknownScopeSeen >>
    ELSE /\ Fail("unknown reservation scope")
         /\ unknownScopeSeen' = TRUE
         /\ UNCHANGED << azReservations, regionReservations >>

\* one record of the response
ParseReservation ==
    /\ pc = "parseReservations"
    /\ nRes < MaxReservations
    /\ nRes' = nRes + 1
    /\ \E scope \in Scopes, t \in Types, z \in Zones, c \in 0..MaxCount :
          ParseRecord(scope, t, z, c)
    /\ UNCHANGED << exitCode, runningInstances, reconciled, regionAtCall, out,
                    visited, reported, onDemandInstances, unusedReservations,
                    written >>

\* end of the records: reconcile is called and runs its first two loops
ReconcileCall ==
    /\ pc = "parseReservations"
    /\ pc' = "borrow"
    /\ regionAtCall' = regionReservations
    /\ out' = ApplyAZ(Seed(runningInstances), azReservations)
    /\ visited' = {}
    /\ reconciled' = TRUE
    /\ UNCHANGED << err, exitCode, runningInstances, azReservations,
                    regionReservations, nRes, unknownScopeSeen, reported,
                    onDemandInstances, unusedReservations, written >>

\* one iteration of the third loop of reconcile
BorrowVisit ==
    /\ pc = "borrow"
    /\ \E k \in DOMAIN out \ visited :
          LET s == Borrow(k, out, regionReservations)
          IN /\ out' = s.out
             /\ regionReservations' = s.region
             /\ visited' = visited \cup {k}
    /\ UNCHANGED << pc, err, exitCode, runningInstances, azReservations, nRes,
                    unknownScopeSeen, reconciled, regionAtCall, reported, onDemandInstances, unusedReservations,
                    written >>

\* the fourth loop of reconcile and its return
ReconcileReturn ==
    /\ pc = "borrow"
    /\ visited = DOMAIN out
    /\ out' = FlushRegion(out, regionReservations)
    /\ pc' = "report"
    /\ reported' = {}
    /\ UNCHANGED << err, exitCode, runningInstances, azReservations,
                    regionReservations, nRes, unknownScopeSeen, reconciled,
                    regionAtCall, visited,
                    onDemandInstances, unusedReservations, written >>

\* one iteration of the loop over the result of reconcile
ReportVisit ==
    /\ pc = "report"
    /\ \E k \in DOMAIN out \ reported :
          /\ reported' = reported \cup {k}
          /\ onDemandInstances' =
                IF ReportKind(out[k]) = "ondemand"
                THEN Append(onDemandInstances, OnDemandRow(k, out[k]))
                ELSE onDemandInstances
          /\ unusedReservations' =
                IF ReportKind(out[k]) = "unused"
                THEN Append(unusedReservations, UnusedRow(k, out[k]))
                ELSE unusedReservations
    /\ UNCHANGED << pc, err, exitCode, runningInstances, azReservations,
                    regionReservations, nRes, unknownScopeSeen, reconciled,
                    regionAtCall, out, visited, written >>

\* the two sort.SliceStable calls
SortReports ==
    /\ pc = "report"
    /\ reported = DOMAIN out
    /\ onDemandInstances' = SliceStable(onDemandInstances)
    /\ unusedReservations' = SliceStable(unusedReservations)
    /\ pc' = "write"
    /\ UNCHANGED << err, exitCode, runningInstances, azReservations,
                    regionReservations, nRes, unknownScopeSeen, reconciled,
                    regionAtCall, out, visited, reported,
                    written >>

\* the Fprintln/Fprintf calls and tw.Flush()
WriteReport ==
    /\ pc = "write"
    /\ written' = ReportLines(onDemandInstances, unusedReservations)
    /\ \/ pc' = "returned" /\ err' = err
       \/ Fail("flush")
    /\ UNCHANGED << exitCode, runningInstances, azReservations, regionReservations,
                    nRes, unknownScopeSeen, reconciled,
                    regionAtCall, out, visited, reported, onDemandInstances,
                    unusedReservations >>

\* main: exit code from the error of do
Exit ==
    /\ pc = "returned"
    /\ pc' = "exited"
    /\ exitCode' = IF err # "" THEN 1 ELSE 0
    /\ UNCHANGED << err, runningInstances, azReservations, regionReservations,
                    nRes, unknownScopeSeen, reconciled,
                    regionAtCall, out, visited, reported, onDemandInstances,
                    unusedReservations, written >>

Next ==
    \/ NewSession
    \/ DescribeInstances
    \/ CountInstance
    \/ DescribeReservedInstances
    \/ ParseReservation
    \/ ReconcileCall
    \/ BorrowVisit
    \/ ReconcileReturn
    \/ ReportVisit
    \/ SortReports
    \/ WriteReport
    \/ Exit

Spec == Init /\ [][Next]_vars

TypeOK ==
    /\ DOMAIN runningInstances \subseteq ZoneKeys
    /\ DOMAIN azReservations \subseteq ZoneKeys
    /\ DOMAIN regionReservations \subseteq RegionKeys
    /\ nRes \in 0..MaxReservations
\* ================================================================ claims
\* reconcile has returned and its result has not been consumed yet
Returned == pc = "report" /\ reported = {}

\* sum of -v over the entries with v < 0 / of v over the entries with v > 0
Uncovered(m) == -SumOver(m, { k \in DOMAIN m : m[k] < 0 })
Unused(m) == SumOver(m, { k \in DOMAIN m : m[k] > 0 })

\* out after the first two loops of reconcile, from the arguments of the call
AfterZonePass == ApplyAZ(Seed(runningInstances), azReservations)
DeficitKeys == { k \in DOMAIN AfterZonePass : AfterZonePass[k] < 0 }

\* C1: conservation: in the result of reconcile, total uncovered minus total
\* unused equals total running minus total zone and region reservations,
\* for every order the maps are traversed in.
C1_Conservation ==
    Returned =>
        Uncovered(out) - Unused(out) =
            Total(runningInstances) - Total(azReservations) - Total(regionAtCall)

\* a call in which a deficit borrowed from a region pool and both signs remain
C1_Witness ==
    /\ Returned
    /\ regionAtCall # regionReservations
    /\ \E k \in DOMAIN out : out[k] < 0
    /\ \E k \in DOMAIN out : out[k] > 0

\* C2: borrowing correctness: one running key (T, z) with count n, no zone
\* reservations and a region pool (T, "") = h > n give a result in which
\* (T, "") = h - n and (T, z) is not uncovered.
C2_BorrowingCorrectness ==
    Returned =>
        \A k \in ZoneKeys :
            ( /\ DOMAIN runningInstances = {k}
              /\ runningInstances[k] > 0
              /\ DOMAIN azReservations = {}
              /\ RegionKey(k) \in DOMAIN regionAtCall
              /\ regionAtCall[RegionKey(k)] > runningInstances[k] )
            => /\ RegionKey(k) \in DOMAIN out
               /\ out[RegionKey(k)] = regionAtCall[RegionKey(k)] - runningInstances[k]
               /\ ~ (k \in DOMAIN out /\ out[k] < 0)

\* the precondition of the insufficient-pool case for the deficit key k
InsufficientPool(k) ==
    /\ DeficitKeys = {k}
    /\ RegionKey(k) \in DOMAIN regionAtCall
    /\ regionAtCall[RegionKey(k)] > 0
    /\ regionAtCall[RegionKey(k)] < -AfterZonePass[k]

\* C3 as stated: with exactly one deficit key (T, z) of need n after the zone
\* pass and a region pool (T, "") = h, 0 < h < n, the result has
\* (T, z) = -(n - h), the region entry of T is removed, and no entry of type T
\* is positive.
C3_InsufficientPool_Original ==
    Returned =>
        \A k \in ZoneKeys :
            InsufficientPool(k)
            => /\ out[k] = -((-AfterZonePass[k]) - regionAtCall[RegionKey(k)])
               /\ RegionKey(k) \notin DOMAIN regionReservations
               /\ \A x \in DOMAIN out : x.Type = k.Type => ~ (out[x] > 0)

\* C3 amended: as above, but the result has no entry (T, "") at all, and the
\* only positive entries of type T are the zone surpluses of other zones,
\* exactly as the zone pass left them.
C3_InsufficientPool ==
    Returned =>
        \A k \in ZoneKeys :
            InsufficientPool(k)
            => /\ out[k] = -((-AfterZonePass[k]) - regionAtCall[RegionKey(k)])
               /\ RegionKey(k) \notin DOMAIN regionReservations
               /\ RegionKey(k) \notin DOMAIN out
               /\ \A x \in DOMAIN out :
                     (x.Type = k.Type /\ out[x] > 0)
                     => (x \in DOMAIN azReservations /\ x # k
                         /\ out[x] = AfterZonePass[x])

C3_Witness ==
    /\ Returned
    /\ \E k \in ZoneKeys :
          /\ InsufficientPool(k)
          /\ out[k] < 0
          /\ \E x \in DOMAIN out : x.Type = k.Type /\ out[x] > 0

PositiveInputs ==
    /\ \A k \in DOMAIN runningInstances : runningInstances[k] > 0
    /\ \A k \in DOMAIN azReservations : azReservations[k] > 0
    /\ \A k \in DOMAIN regionAtCall : regionAtCall[k] > 0

\* C4 as stated: no entry of the mapping reconcile returns is zero (taken
\* here on the inputs whose counts are all positive, a part of the inputs
\* with counts >= 0 the claim speaks of).
C4_NoZeroEntry_Original ==
    (Returned /\ PositiveInputs) => \A k \in DOMAIN out : out[k] # 0

Rows(s) == { s[i] : i \in 1..Len(s) }
NonZeroKeys == { k \in DOMAIN out : out[k] # 0 }

\* C4 amended: the mapping reconcile returns may hold zero entries; they are
\* dropped when the reports are derived: every report row has a count > 0
\* and, once the result is consumed, there is one row per nonzero entry.
C4_NoZeroRow ==
    /\ \A r \in Rows(onDemandInstances) \cup Rows(unusedReservations) : r.Count > 0
    /\ \A i \in 1..Len(written) : written[i].hdr = "" => written[i].Count > 0
    /\ pc = "write" =>
          Len(onDemandInstances) + Len(unusedReservations) = Cardinality(NonZeroKeys)

\* a zero entry in the result next to entries that are reported
C4_Witness ==
    /\ pc = "write"
    /\ \E k \in DOMAIN out : out[k] = 0
    /\ \E k \in DOMAIN out : out[k] = 0 /\ Get(regionAtCall, RegionKey(k)) > 0
    /\ Len(onDemandInstances) + Len(unusedReservations) > 0

\* the key k is the one the borrowing loop visits in this step
Visits(k) == pc = "borrow" /\ k \notin visited /\ k \in visited'

ExactZoneMatch(k) ==
    /\ k \in DOMAIN runningInstances
    /\ k \in DOMAIN azReservations
    /\ azReservations[k] = runningInstances[k]

\* C5: zone before region: a key whose zone reservations equal its running
\* count draws nothing from the region pool when the borrowing loop visits it
\* and has no deficit in the result, whatever the region pool holds.
C5_ZoneBeforeRegion ==
    /\ [][ \A k \in ZoneKeys :
              (Visits(k) /\ ExactZoneMatch(k))
              => (regionReservations' = regionReservations /\ out' = out) ]_vars
    /\ [] (Returned => \A k \in ZoneKeys : ExactZoneMatch(k) => out[k] = 0)

C5_Witness ==
    /\ Returned
    /\ \E k \in ZoneKeys :
          /\ ExactZoneMatch(k)
          /\ runningInstances[k] > 0
          /\ Get(regionAtCall, RegionKey(k)) > 0
          /\ out[k] = 0
          /\ out[RegionKey(k)] = regionAtCall[RegionKey(k)]

FailFastErrors ==
    { "session", "DescribeInstances", "DescribeReservedInstances",
      "unknown reservation scope" }

\* C6: fail fast: a record of unknown scope makes do return the unknown-scope
\* error; when do returns that error or a fetch error, reconcile was never
\* called and nothing was written to the report; the process exits non-zero.
C6_FailFast ==
    /\ unknownScopeSeen =>
          (pc \in {"returned", "exited"} /\ err = "unknown reservation scope")
    /\ err \in FailFastErrors =>
          /\ pc \in {"returned", "exited"}
          /\ ~ reconciled
          /\ written = << >>
          /\ onDemandInstances = << >>
          /\ unusedReservations = << >>
    /\ (pc = "exited" /\ err # "") => exitCode = 1
    /\ (pc = "exited" /\ err = "") => exitCode = 0

\* a record of unknown scope read after instances and a reservation were counted
C6_Witness ==
    /\ pc = "exited"
    /\ unknownScopeSeen
    /\ exitCode = 1
    /\ runningInstances # EmptyMap
    /\ nRes = 2
ReservationKeys ==
    { k \in DOMAIN azReservations : azReservations[k] > 0 }
    \cup { k \in DOMAIN regionAtCall : regionAtCall[k] > 0 }
ReservedCount(k) == IF k.AZ = EmptyAZ THEN regionAtCall[k] ELSE azReservations[k]
Occurrences(s, r) == Cardinality({ i \in 1..Len(s) : s[i] = r })

\* C7: with nothing running, the on-demand report is empty and the unused
\* report has exactly one row per reservation key of positive count c: the
\* key's type, the count c and no zone.
C7_UnusedOnly ==
    (pc = "write" /\ runningInstances = EmptyMap) =>
        /\ onDemandInstances = << >>
        /\ Len(unusedReservations) = Cardinality(ReservationKeys)
        /\ \A r \in Rows(unusedReservations) :
              /\ r.AZ = EmptyAZ
              /\ Occurrences(unusedReservations, r) =
                    Cardinality({ k \in ReservationKeys :
                                    k.Type = r.Type /\ ReservedCount(k) = r.Count })

\* a zone reservation and a region reservation, nothing running
C7_Witness ==
    /\ pc = "write"
    /\ runningInstances = EmptyMap
    /\ \E k \in DOMAIN azReservations : azReservations[k] > 0
    /\ \E k \in DOMAIN regionAtCall : regionAtCall[k] > 0
    /\ Len(unusedReservations) = 2

\* s is in ascending order of Type
SortedByType(s) == \A i, j \in 1..Len(s) : i < j => ~ StrLess(s[j].Type, s[i].Type)
\* the rows of one type, in their order in s
OfType(s, t) == SelectSeq(s, LAMBDA r : r.Type = t)
\* t is s sorted by Type with the rows of equal type in their order in s
StableSortOf(s, t) ==
    /\ Len(t) = Len(s)
    /\ SortedByType(t)
    /\ \A ty \in Types : OfType(t, ty) = OfType(s, ty)

\* C8: both report lists are sorted by ascending type whatever the order the
\* result was traversed in, rows of equal type keep their appended order,
\* the sorted lists are what is written, and every deficit key has a row of
\* its own in the on-demand list.
C8_Sorting ==
    /\ [][ (pc = "report" /\ pc' = "write")
           => /\ StableSortOf(onDemandInstances, onDemandInstances')
              /\ StableSortOf(unusedReservations, unusedReservations') ]_vars
    /\ [] (pc = "write" =>
             /\ Len(onDemandInstances) = Cardinality({ k \in DOMAIN out : out[k] < 0 })
             /\ \A k \in DOMAIN out :
                   out[k] < 0 =>
                      reportedInfo(k.Type, k.AZ, -out[k]) \in Rows(onDemandInstances))
    /\ [][ (pc = "write" /\ pc' = "returned")
           => /\ SelectSeq(written', LAMBDA l : l.hdr = "" /\ l.AZ # EmptyAZ)
                    = Lines(onDemandInstances)
              /\ SelectSeq(written', LAMBDA l : l.hdr = "" /\ l.AZ = EmptyAZ)
                    = Lines(unusedReservations) ]_vars

\* both lists hold rows of two types, sorted
C8_Witness ==
    /\ pc = "write"
    /\ Len(onDemandInstances) = 2
    /\ StrLess(onDemandInstances[1].Type, onDemandInstances[2].Type)
    /\ Len(unusedReservations) = 2
    /\ StrLess(unusedReservations[1].Type, unusedReservations[2].Type)

\* C9: when the borrowing loop serves a deficit key (T, z) with need < have,
\* the pool entry (T, "") holds have - need after the step.
C9_PartialConsumption ==
    [][ \A k \in ZoneKeys :
           ( /\ Visits(k)
             /\ out[k] < 0
             /\ RegionKey(k) \in DOMAIN regionReservations
             /\ -out[k] < regionReservations[RegionKey(k)] )
           => /\ RegionKey(k) \in DOMAIN regionReservations'
              /\ regionReservations'[RegionKey(k)] =
                    regionReservations[RegionKey(k)] - (-out[k]) ]_vars

RECURSIVE Perms(_)
Perms(S) ==
    IF S = {} THEN { << >> }
    ELSE UNION { { << x >> \o p : p \in Perms(S \ {x}) } : x \in S }

\* the results of reconcile on the arguments of the call, over every order in
\* which its third loop can range over out
ResultsOverOrders ==
    { reconcile(runningInstances, azReservations, regionAtCall, o) :
         o \in Perms(DOMAIN AfterZonePass) }

\* a region pool is shared by two deficit keys of one type
SharedPool ==
    \E k1, k2 \in DeficitKeys :
        /\ k1 # k2
        /\ k1.Type = k2.Type
        /\ instanceInfo(k1.Type, EmptyAZ) \in DOMAIN regionAtCall

\* C10 as stated: the result is the same for every order when no pool is
\* shared by two deficit keys of one type, and for every input in which a
\* pool is shared there are two orders with different results (taken here on
\* the inputs whose counts are all positive).
C10_OrderDependence_Original ==
    (Returned /\ PositiveInputs) =>
        IF SharedPool THEN Cardinality(ResultsOverOrders) >= 2
                      ELSE ResultsOverOrders = {out}

\* C10 amended: the result is the same for every order when no pool is
\* shared by two deficit keys of one type; it is always the result of one of
\* the orders; only some of the inputs with a shared pool have two orders
\* with different results.
C10_OrderDependence ==
    Returned =>
        /\ out \in ResultsOverOrders
        /\ ~ SharedPool => ResultsOverOrders = {out}

\* a shared pool for which two orders give different results
C10_Witness ==
    /\ Returned
    /\ SharedPool
    /\ Cardinality(ResultsOverOrders) >= 2
====
